---- MODULE Spec2Model ----
(***************************************************************************)
(* A model of the forwarding relay of src/index.js: the fetch handler, its *)
(* helpers (ensureProtocol, filterHeaders, handleRedirect,                 *)
(* handleHtmlContent, replaceRelativePaths, jsonResponse, setNoCacheHeaders*)
(* setCorsHeaders) and the platform operations they call (URL, Headers,    *)
(* Request, Response, encodeURIComponent, decodeURIComponent,              *)
(* String.prototype.replace / startsWith / includes).                      *)
(*                                                                         *)
(* A JavaScript string is a tuple of one-character strings, so that every  *)
(* string operation of the code is computed character by character.        *)
(* A value that may be null is None (null) or Some(v).                     *)
(***************************************************************************)
EXTENDS Integers, Sequences, FiniteSets, TLC

None == <<>>
Some(v) == <<v>>

----------------------------------------------------------------------------
(* Characters and the String methods the code uses.                        *)

UpperChars == <<"A", "B", "C", "D", "E", "F", "G", "H", "I", "J", "K", "L", "M", "N", "O", "P", "Q", "R", "S", "T", "U", "V", "W", "X", "Y", "Z">>
LowerChars == <<"a", "b", "c", "d", "e", "f", "g", "h", "i", "j", "k", "l", "m", "n", "o", "p", "q", "r", "s", "t", "u", "v", "w", "x", "y", "z">>
DigitChars == <<"0", "1", "2", "3", "4", "5", "6", "7", "8", "9">>
HexChars == <<"0", "1", "2", "3", "4", "5", "6", "7", "8", "9", "A", "B", "C", "D", "E", "F", "a", "b", "c", "d", "e", "f">>
\* The characters of a lower-cased header name in code-unit order.
NameOrder == <<"-", "0", "1", "2", "3", "4", "5", "6", "7", "8", "9", "_", "a", "b", "c", "d", "e", "f", "g", "h", "i", "j", "k", "l", "m", "n", "o", "p", "q", "r", "s", "t", "u", "v", "w", "x", "y", "z">>

Chars(s) == {s[i] : i \in 1..Len(s)}
UpperSet == Chars(UpperChars)
LowerSet == Chars(LowerChars)
DigitSet == Chars(DigitChars)
HexSet == Chars(HexChars)
IndexOf(c, s) == CHOOSE i \in 1..Len(s) : s[i] = c
Ord(c) == IF \E i \in 1..Len(NameOrder) : NameOrder[i] = c THEN IndexOf(c, NameOrder) ELSE 0

toLowerCaseChar(c) ==
  IF c \in UpperSet THEN LowerChars[IndexOf(c, UpperChars)] ELSE c
toLowerCase(s) == [i \in 1..Len(s) |-> toLowerCaseChar(s[i])]

\* s.startsWith(p)
startsWith(s, p) == Len(s) >= Len(p) /\ SubSeq(s, 1, Len(p)) = p
\* whether p occurs in s at index i (1-based)
OccursAt(s, p, i) == i + Len(p) - 1 <= Len(s) /\ SubSeq(s, i, i + Len(p) - 1) = p
\* s.includes(p): a case-sensitive substring search
includes(s, p) == \E i \in 1..(Len(s) + 1) : OccursAt(s, p, i)
\* s.replace(p, r) with a string pattern: only the first occurrence is replaced
replaceFirst(s, p, r) ==
  IF ~includes(s, p) THEN s
  ELSE LET i == CHOOSE k \in 1..(Len(s) + 1) :
                  OccursAt(s, p, k) /\ \A j \in 1..(k - 1) : ~OccursAt(s, p, j)
       IN SubSeq(s, 1, i - 1) \o r \o SubSeq(s, i + Len(p), Len(s))

RECURSIVE Concat(_)
Concat(ss) == IF ss = <<>> THEN <<>> ELSE Head(ss) \o Concat(Tail(ss))

RECURSIVE Join(_, _)
Join(ss, sep) ==
  IF ss = <<>> THEN <<>>
  ELSE IF Len(ss) = 1 THEN ss[1]
  ELSE ss[1] \o sep \o Join(Tail(ss), sep)

\* The first index >= i of s holding a character of cs, or Len(s) + 1.
RECURSIVE FindAny(_, _, _)
FindAny(s, cs, i) ==
  IF i > Len(s) THEN Len(s) + 1
  ELSE IF s[i] \in cs THEN i
  ELSE FindAny(s, cs, i + 1)

----------------------------------------------------------------------------
(* Percent-encoding: encodeURIComponent, decodeURIComponent.               *)

\* The printable ASCII characters (but the backquote) and their bytes, as two
\* upper-case hex digits.
Escapes ==
  {
    <<" ", <<"2", "0">>>>, <<"!", <<"2", "1">>>>, <<"\"", <<"2", "2">>>>, <<"#", <<"2", "3">>>>,
    <<"$", <<"2", "4">>>>, <<"%", <<"2", "5">>>>, <<"&", <<"2", "6">>>>, <<"'", <<"2", "7">>>>,
    <<"(", <<"2", "8">>>>, <<")", <<"2", "9">>>>, <<"*", <<"2", "A">>>>, <<"+", <<"2", "B">>>>,
    <<",", <<"2", "C">>>>, <<"-", <<"2", "D">>>>, <<".", <<"2", "E">>>>, <<"/", <<"2", "F">>>>,
    <<"0", <<"3", "0">>>>, <<"1", <<"3", "1">>>>, <<"2", <<"3", "2">>>>, <<"3", <<"3", "3">>>>,
    <<"4", <<"3", "4">>>>, <<"5", <<"3", "5">>>>, <<"6", <<"3", "6">>>>, <<"7", <<"3", "7">>>>,
    <<"8", <<"3", "8">>>>, <<"9", <<"3", "9">>>>, <<":", <<"3", "A">>>>, <<";", <<"3", "B">>>>,
    <<"<", <<"3", "C">>>>, <<"=", <<"3", "D">>>>, <<">", <<"3", "E">>>>, <<"?", <<"3", "F">>>>,
    <<"@", <<"4", "0">>>>, <<"A", <<"4", "1">>>>, <<"B", <<"4", "2">>>>, <<"C", <<"4", "3">>>>,
    <<"D", <<"4", "4">>>>, <<"E", <<"4", "5">>>>, <<"F", <<"4", "6">>>>, <<"G", <<"4", "7">>>>,
    <<"H", <<"4", "8">>>>, <<"I", <<"4", "9">>>>, <<"J", <<"4", "A">>>>, <<"K", <<"4", "B">>>>,
    <<"L", <<"4", "C">>>>, <<"M", <<"4", "D">>>>, <<"N", <<"4", "E">>>>, <<"O", <<"4", "F">>>>,
    <<"P", <<"5", "0">>>>, <<"Q", <<"5", "1">>>>, <<"R", <<"5", "2">>>>, <<"S", <<"5", "3">>>>,
    <<"T", <<"5", "4">>>>, <<"U", <<"5", "5">>>>, <<"V", <<"5", "6">>>>, <<"W", <<"5", "7">>>>,
    <<"X", <<"5", "8">>>>, <<"Y", <<"5", "9">>>>, <<"Z", <<"5", "A">>>>, <<"[", <<"5", "B">>>>,
    <<"\\", <<"5", "C">>>>, <<"]", <<"5", "D">>>>, <<"^", <<"5", "E">>>>, <<"_", <<"5", "F">>>>,
    <<"a", <<"6", "1">>>>, <<"b", <<"6", "2">>>>, <<"c", <<"6", "3">>>>, <<"d", <<"6", "4">>>>,
    <<"e", <<"6", "5">>>>, <<"f", <<"6", "6">>>>, <<"g", <<"6", "7">>>>, <<"h", <<"6", "8">>>>,
    <<"i", <<"6", "9">>>>, <<"j", <<"6", "A">>>>, <<"k", <<"6", "B">>>>, <<"l", <<"6", "C">>>>,
    <<"m", <<"6", "D">>>>, <<"n", <<"6", "E">>>>, <<"o", <<"6", "F">>>>, <<"p", <<"7", "0">>>>,
    <<"q", <<"7", "1">>>>, <<"r", <<"7", "2">>>>, <<"s", <<"7", "3">>>>, <<"t", <<"7", "4">>>>,
    <<"u", <<"7", "5">>>>, <<"v", <<"7", "6">>>>, <<"w", <<"7", "7">>>>, <<"x", <<"7", "8">>>>,
    <<"y", <<"7", "9">>>>, <<"z", <<"7", "A">>>>, <<"{", <<"7", "B">>>>, <<"|", <<"7", "C">>>>,
    <<"}", <<"7", "D">>>>, <<"~", <<"7", "E">>>> }
HexOf(c) == (CHOOSE e \in Escapes : e[1] = c)[2]
\* decodeURIComponent accepts hex digits of either case
ByteKnown(h) == \E e \in Escapes : e[2] = h
CharOf(h) == (CHOOSE e \in Escapes : e[2] = h)[1]
toUpperHex(h) ==
  [i \in 1..Len(h) |->
     IF h[i] \in LowerSet THEN UpperChars[IndexOf(h[i], LowerChars)] ELSE h[i]]

\* encodeURIComponent leaves A-Z a-z 0-9 - _ . ! ~ * ' ( ) alone
Unreserved ==
  UpperSet \cup LowerSet \cup DigitSet
    \cup {"-", "_", ".", "!", "~", "*", "'", "(", ")"}

encodeURIComponent(s) ==
  Concat([i \in 1..Len(s) |->
            IF s[i] \in Unreserved THEN <<s[i]>> ELSE <<"%">> \o HexOf(s[i])])

\* decodeURIComponent(s): [ok |-> TRUE, value |-> ...], or ok = FALSE where the
\* code throws URIError (a '%' not followed by two hex digits).
RECURSIVE decodeFrom(_, _)
decodeFrom(s, i) ==
  IF i > Len(s) THEN [ok |-> TRUE, value |-> <<>>]
  ELSE IF s[i] # "%" THEN
    LET r == decodeFrom(s, i + 1)
    IN [ok |-> r.ok, value |-> <<s[i]>> \o r.value]
  ELSE IF i + 2 > Len(s) \/ s[i + 1] \notin HexSet
            \/ s[i + 2] \notin HexSet
          \/ ~ByteKnown(toUpperHex(SubSeq(s, i + 1, i + 2)))  \* a lone byte >= 0x80
    THEN [ok |-> FALSE, value |-> <<>>]
  ELSE
    LET r == decodeFrom(s, i + 3)
    IN [ok |-> r.ok, value |-> <<CharOf(toUpperHex(SubSeq(s, i + 1, i + 2)))>> \o r.value]
decodeURIComponent(s) == decodeFrom(s, 1)

----------------------------------------------------------------------------
(* new URL(s) without a base, for the http: and https: schemes the relay   *)
(* builds and for any other scheme a Location header may carry.            *)

SchemeChars == UpperSet \cup LowerSet \cup DigitSet \cup {"+", "-", "."}
Alpha == UpperSet \cup LowerSet
\* a host may not hold these (the forbidden domain code points of the alphabet)
ForbiddenHost == {" ", "#", "/", ":", "<", ">", "?", "@", "[", "\\", "]", "^", "|", "%"}
\* the percent-encode sets of the path, the query and the fragment
PathEncodeSet == {" ", "\"", "#", "<", ">", "?", "{", "}"}
QueryEncodeSet == {" ", "\"", "#", "<", ">", "'"}
FragmentEncodeSet == {" ", "\"", "<", ">"}

percentEncode(s, set) ==
  Concat([i \in 1..Len(s) |->
            IF s[i] \in set THEN <<"%">> \o HexOf(s[i]) ELSE <<s[i]>>])

\* leading and trailing spaces are stripped before parsing
RECURSIVE trim(_)
trim(s) ==
  IF s = <<>> THEN s
  ELSE IF Head(s) = " " THEN trim(Tail(s))
  ELSE IF s[Len(s)] = " " THEN trim(SubSeq(s, 1, Len(s) - 1))
  ELSE s

\* the index of the ':' ending the scheme, or 0 when s starts with no scheme
SchemeEnd(s) ==
  LET i == FindAny(s, {c \in Chars(s) : c \notin SchemeChars}, 1)
  IN IF i >= 2 /\ i <= Len(s) /\ s[i] = ":" /\ s[1] \in Alpha THEN i ELSE 0

DefaultPort(scheme) == IF scheme = <<"h", "t", "t", "p">> THEN 80 ELSE 443

\* a port: its digits as a number, and a number as digits
RECURSIVE PortValue(_)
PortValue(digits) ==
  IF digits = <<>> THEN 0
  ELSE IF PortValue(SubSeq(digits, 1, Len(digits) - 1)) > 65535 THEN 65536
  ELSE 10 * PortValue(SubSeq(digits, 1, Len(digits) - 1))
         + IndexOf(digits[Len(digits)], DigitChars) - 1
RECURSIVE PortDigits(_)
PortDigits(n) ==
  IF n < 10 THEN <<DigitChars[n + 1]>>
  ELSE PortDigits(n \div 10) \o <<DigitChars[(n % 10) + 1]>>

InvalidURL == [ok |-> FALSE]

\* The parse of an http(s) URL after "scheme:": any number of slashes, the
\* authority up to the path, then path, query and fragment.
ParseSpecial(scheme, rest) ==
  LET a == FindAny(rest, {c \in Chars(rest) : c \notin {"/", "\\"}}, 1)
      e == FindAny(rest, {"/", "\\", "?", "#"}, a)
      authority == SubSeq(rest, a, e - 1)
      colon == FindAny(authority, {":"}, 1)
      hostname == toLowerCase(SubSeq(authority, 1, colon - 1))
      port == SubSeq(authority, colon + 1, Len(authority))
      q == FindAny(rest, {"?", "#"}, e)
      h == FindAny(rest, {"#"}, e)
      rawPath == SubSeq(rest, e, q - 1)
      rawQuery == SubSeq(rest, q, h - 1)
      rawHash == SubSeq(rest, h, Len(rest))
  IN IF hostname = <<>> \/ Chars(hostname) \cap ForbiddenHost # {}
        \/ Chars(port) \ DigitSet # {} \/ PortValue(port) > 65535
     THEN InvalidURL
     ELSE [ok |-> TRUE,
           protocol |-> scheme \o <<":">>,
           host |-> IF port = <<>> \/ PortValue(port) = DefaultPort(scheme)
                    THEN hostname ELSE hostname \o <<":">> \o PortDigits(PortValue(port)),
           pathname |-> IF rawPath = <<>> THEN <<"/">>
                        ELSE percentEncode([i \in 1..Len(rawPath) |->
                               IF rawPath[i] = "\\" THEN "/" ELSE rawPath[i]], PathEncodeSet),
           search |-> IF rawQuery = <<>> THEN <<>>
                      ELSE <<"?">> \o percentEncode(Tail(rawQuery), QueryEncodeSet),
           hash |-> IF rawHash = <<>> THEN <<>>
                    ELSE <<"#">> \o percentEncode(Tail(rawHash), FragmentEncodeSet),
           special |-> TRUE]

\* new URL(s): [ok |-> FALSE] where the constructor throws TypeError.
ParseURL(str) ==
  LET s == trim(str)
      i == SchemeEnd(s)
      scheme == toLowerCase(SubSeq(s, 1, i - 1))
  IN IF i = 0 THEN InvalidURL
     ELSE IF scheme \in {<<"h", "t", "t", "p">>, <<"h", "t", "t", "p", "s">>}
       THEN ParseSpecial(scheme, SubSeq(s, i + 1, Len(s)))
     ELSE [ok |-> TRUE, protocol |-> scheme \o <<":">>, host |-> <<>>,
           pathname |-> SubSeq(s, i + 1, Len(s)), search |-> <<>>, hash |-> <<>>,
           special |-> FALSE]

\* url.toString() / url.href
Href(u) ==
  IF u.special THEN u.protocol \o <<"/", "/">> \o u.host \o u.pathname \o u.search \o u.hash
  ELSE u.protocol \o u.pathname
\* url.origin
Origin(u) == IF u.special THEN u.protocol \o <<"/", "/">> \o u.host ELSE <<"n", "u", "l", "l">>

----------------------------------------------------------------------------
(* The Headers class: a header list of <<name, value>> pairs.              *)

RECURSIVE NameLess(_, _)
NameLess(a, b) ==
  IF b = <<>> THEN FALSE
  ELSE IF a = <<>> THEN TRUE
  ELSE IF Ord(a[1]) # Ord(b[1]) THEN Ord(a[1]) < Ord(b[1])
  ELSE NameLess(Tail(a), Tail(b))

RECURSIVE SortNames(_)
SortNames(S) ==
  IF S = {} THEN <<>>
  ELSE LET m == CHOOSE x \in S : \A y \in S \ {x} : NameLess(x, y)
       IN <<m>> \o SortNames(S \ {m})

\* the values of the headers named lname (lower case), in list order
RECURSIVE ValuesOf(_, _)
ValuesOf(h, lname) ==
  IF h = <<>> THEN <<>>
  ELSE IF toLowerCase(h[1][1]) = lname THEN <<h[1][2]>> \o ValuesOf(Tail(h), lname)
  ELSE ValuesOf(Tail(h), lname)

\* headers.get(name): the values of that name joined by ", ", or null
HeadersGet(h, name) ==
  LET vs == ValuesOf(h, toLowerCase(name))
  IN IF vs = <<>> THEN None ELSE Some(Join(vs, <<",", " ">>))

\* Iterating a Headers object ([...headers]): names lower-cased and sorted,
\* the values of one name combined, those of Set-Cookie kept apart.
HeadersEntries(h) ==
  LET names == SortNames({toLowerCase(h[i][1]) : i \in 1..Len(h)})
      of(n) == IF n = <<"s", "e", "t", "-", "c", "o", "o", "k", "i", "e">>
               THEN [k \in 1..Len(ValuesOf(h, n)) |-> <<n, ValuesOf(h, n)[k]>>]
               ELSE << <<n, Join(ValuesOf(h, n), <<",", " ">>)>> >>
  IN Concat([i \in 1..Len(names) |-> of(names[i])])

\* new Headers(init) for a sequence of pairs: each pair is appended
HeadersNew(pairs) == pairs
\* A variant: the headers copied through a plain object, as Object.fromEntries
\* would: one value a name, so a second Set-Cookie replaces the first
HeadersCopyByName(h) ==
  LET e == HeadersEntries(h)
  IN HeadersNew(SelectSeq([i \in 1..Len(e) |->
                             IF \E j \in (i + 1)..Len(e) : e[j][1] = e[i][1]
                             THEN <<>> ELSE e[i]],
                          LAMBDA x : x # <<>>))

\* new Headers(headers) / a Headers object as a Response's init.headers:
\* the object is read through its iterator
HeadersCopy(h) == HeadersNew(HeadersEntries(h))

RECURSIVE DropNamed(_, _)
DropNamed(h, lname) ==
  IF h = <<>> THEN <<>>
  ELSE IF toLowerCase(h[1][1]) = lname THEN DropNamed(Tail(h), lname)
  ELSE <<h[1]>> \o DropNamed(Tail(h), lname)

\* headers.set(name, value): the first header of that name takes the value and
\* the others are removed; a new name is appended
RECURSIVE HeadersSet(_, _, _)
HeadersSet(h, name, value) ==
  IF h = <<>> THEN << <<name, value>> >>
  ELSE IF toLowerCase(h[1][1]) = toLowerCase(name)
    THEN << <<h[1][1], value>> >> \o DropNamed(Tail(h), toLowerCase(name))
  ELSE <<h[1]>> \o HeadersSet(Tail(h), name, value)

\* { ...headers }: a Headers object has no own enumerable property, so the
\* spread copies nothing
SpreadHeaders(h) == <<>>
\* { ...obj, key: value }: an own property of that exact key is overwritten
ObjectWith(obj, key, value) ==
  IF \E i \in 1..Len(obj) : obj[i][1] = key
  THEN [i \in 1..Len(obj) |-> IF obj[i][1] = key THEN <<key, value>> ELSE obj[i]]
  ELSE Append(obj, <<key, value>>)

----------------------------------------------------------------------------
(* Request and Response.                                                   *)

Thrown(msg) == [ok |-> FALSE, message |-> msg]
Returned(v) == [ok |-> TRUE, value |-> v]

NullBodyStatus == {101, 204, 205, 304}

\* new Response(body, {status, statusText, headers}). A body with a null body
\* status is a TypeError; lenient is the runtime's choice for a body of length
\* zero, which workerd accepts with a warning and the Fetch standard rejects.
NewResponse(body, status, statusText, headers, lenient) ==
  IF status < 200 \/ status > 599
    THEN Thrown(<<"I", "n", "v", "a", "l", "i", "d", " ", "s", "t", "a", "t", "u", "s">>)
  ELSE IF body # None /\ status \in NullBodyStatus /\ ~(lenient /\ body = Some(<<>>))
    THEN Thrown(<<"R", "e", "s", "p", "o", "n", "s", "e", " ", "w", "i", "t", "h", " ", "n", "u", "l", "l", " ", "b", "o", "d", "y", " ", "s", "t", "a", "t", "u", "s", " ", "c", "a", "n", "n", "o", "t", " ", "h", "a", "v", "e", " ", "b", "o", "d", "y">>)
  ELSE Returned([status |-> status, statusText |-> statusText,
                 headers |-> headers, body |-> body])

\* new Request(url, {headers, method, body, redirect})
NewRequest(url, headers, method, body, redirect) ==
  LET u == ParseURL(url)
  IN IF ~u.ok THEN Thrown(<<"I", "n", "v", "a", "l", "i", "d", " ", "U", "R", "L">>)
     ELSE IF body # None /\ method \in {"GET", "HEAD"}
       THEN Thrown(<<"R", "e", "q", "u", "e", "s", "t", " ", "w", "i", "t", "h", " ", "a", " ", "G", "E", "T", " ", "o", "r", " ", "H", "E", "A", "D", " ", "m", "e", "t", "h", "o", "d", " ", "c", "a", "n", "n", "o", "t", " ", "h", "a", "v", "e", " ", "a", " ", "b", "o", "d", "y">>)
     ELSE Returned([url |-> Href(u), method |-> method, body |-> body,
                    headers |-> headers, redirect |-> redirect])

\* JSON.stringify of a string: quotes and backslashes are escaped
JSONString(s) ==
  <<"\"">> \o Concat([i \in 1..Len(s) |->
                   IF s[i] \in {"\"", "\\"} THEN <<"\\", s[i]>> ELSE <<s[i]>>]) \o <<"\"">>
\* JSON.stringify({error: message})
JSONStringifyError(message) == <<"{", "\"", "e", "r", "r", "o", "r", "\"", ":">> \o JSONString(message) \o <<"}">>

----------------------------------------------------------------------------
(* The helpers of index.js.                                                *)

\* A variant: only https:// counts as an explicit scheme
ensureProtocolHttpsOnly(url, defaultProtocol) ==
  IF startsWith(url, <<"h", "t", "t", "p", "s", ":", "/", "/">>) THEN url ELSE defaultProtocol \o <<"/", "/">> \o url

\* ensureProtocol(url, defaultProtocol), index.js:75
ensureProtocol(url, defaultProtocol) ==
  IF startsWith(url, <<"h", "t", "t", "p", ":", "/", "/">>) \/ startsWith(url, <<"h", "t", "t", "p", "s", ":", "/", "/">>)
  THEN url
  ELSE defaultProtocol \o <<"/", "/">> \o url

\* A variant: cf- anywhere in the name, not only at its start
notReservedAnywhere(name) == ~includes(name, <<"c", "f", "-">>)

\* (name) => !name.startsWith('cf-'), index.js:25
notReserved(name) == ~startsWith(name, <<"c", "f", "-">>)

\* filterHeaders(headers, filterFunc), index.js:119, with the filter of line 25
filterHeaders(headers) ==
  HeadersNew(SelectSeq(HeadersEntries(headers), LAMBDA e : notReserved(e[1])))

\* handleRedirect(response, body), index.js:80
handleRedirect(response, body) ==
  LET got == HeadersGet(response.headers, <<"l", "o", "c", "a", "t", "i", "o", "n">>)
      location == ParseURL(IF got = None THEN <<"n", "u", "l", "l">> ELSE got[1])
      modifiedLocation == <<"/">> \o encodeURIComponent(Href(location))
  IN IF ~location.ok THEN Thrown(<<"I", "n", "v", "a", "l", "i", "d", " ", "U", "R", "L">>)
     ELSE NewResponse(body, response.status, response.statusText,
                      HeadersNew(ObjectWith(SpreadHeaders(response.headers),
                                            <<"L", "o", "c", "a", "t", "i", "o", "n">>, modifiedLocation)),
                      FALSE)

\* A variant: the expression without its lookahead (?!/)
Group1AtNoLookahead(text, i) ==
  LET attr(a) == OccursAt(text, a, i)
                   /\ i + Len(a) + 1 <= Len(text)
                   /\ text[i + Len(a)] \in {"\"", "'"}
                   /\ text[i + Len(a) + 1] = "/"
  IN IF attr(<<"h", "r", "e", "f", "=">>) THEN 6
     ELSE IF attr(<<"s", "r", "c", "=">>) THEN 5
     ELSE IF attr(<<"a", "c", "t", "i", "o", "n", "=">>) THEN 8
     ELSE 0

\* The regular expression ((href|src|action)=["'])/(?!/) tried at index i:
\* the length of group 1 when it matches there, and 0 when it does not.
Group1At(text, i) ==
  LET attr(a) == OccursAt(text, a, i)
                   /\ i + Len(a) + 1 <= Len(text)
                   /\ text[i + Len(a)] \in {"\"", "'"}
                   /\ text[i + Len(a) + 1] = "/"
                   /\ ~(i + Len(a) + 2 <= Len(text) /\ text[i + Len(a) + 2] = "/")
  IN IF attr(<<"h", "r", "e", "f", "=">>) THEN 6
     ELSE IF attr(<<"s", "r", "c", "=">>) THEN 5
     ELSE IF attr(<<"a", "c", "t", "i", "o", "n", "=">>) THEN 8
     ELSE 0

\* text.replace(regex, `$1${protocol}//${host}/${origin}/`) with the g flag:
\* the scan resumes after each match
RECURSIVE replaceFrom(_, _, _)
replaceFrom(text, i, replacement) ==
  IF i > Len(text) THEN <<>>
  ELSE LET g == Group1At(text, i)
       IN IF g = 0 THEN <<text[i]>> \o replaceFrom(text, i + 1, replacement)
          ELSE SubSeq(text, i, i + g - 1) \o replacement
                 \o replaceFrom(text, i + g + 1, replacement)

\* replaceRelativePaths(text, protocol, host, origin), index.js:103
replaceRelativePaths(text, protocol, host, origin) ==
  replaceFrom(text, 1, protocol \o <<"/", "/">> \o host \o <<"/">> \o origin \o <<"/">>)

\* handleHtmlContent(response, protocol, host, actualUrlStr), index.js:94;
\* response.text() rejects when the body stream fails
handleHtmlContent(response, protocol, host, actualUrlStr) ==
  LET originalText == IF response.body = None THEN <<>> ELSE response.body[1]
      target == ParseURL(actualUrlStr)
  IN IF ~response.readable THEN Thrown(<<"N", "e", "t", "w", "o", "r", "k", " ", "c", "o", "n", "n", "e", "c", "t", "i", "o", "n", " ", "l", "o", "s", "t">>)
     ELSE IF ~target.ok THEN Thrown(<<"I", "n", "v", "a", "l", "i", "d", " ", "U", "R", "L">>)
     ELSE Returned(replaceRelativePaths(originalText, protocol, host, Origin(target)))

\* A variant: the message sent as it is, not as JSON
jsonResponseRaw(message, status) ==
  [status |-> status, statusText |-> <<>>,
   headers |-> HeadersNew(<< <<<<"C", "o", "n", "t", "e", "n", "t", "-", "T", "y", "p", "e">>, <<"a", "p", "p", "l", "i", "c", "a", "t", "i", "o", "n", "/", "j", "s", "o", "n", ";", " ", "c", "h", "a", "r", "s", "e", "t", "=", "u", "t", "f", "-", "8">>>> >>),
   body |-> Some(message)]

\* jsonResponse(data, status), index.js:109, for data = {error: message}
jsonResponse(message, status) ==
  [status |-> status, statusText |-> <<>>,
   headers |-> HeadersNew(<< <<<<"C", "o", "n", "t", "e", "n", "t", "-", "T", "y", "p", "e">>, <<"a", "p", "p", "l", "i", "c", "a", "t", "i", "o", "n", "/", "j", "s", "o", "n", ";", " ", "c", "h", "a", "r", "s", "e", "t", "=", "u", "t", "f", "-", "8">>>> >>),
   body |-> Some(JSONStringifyError(message))]

\* setNoCacheHeaders(headers), index.js:124
setNoCacheHeaders(headers) == HeadersSet(headers, <<"C", "a", "c", "h", "e", "-", "C", "o", "n", "t", "r", "o", "l">>, <<"n", "o", "-", "s", "t", "o", "r", "e">>)

\* setCorsHeaders(headers), index.js:129
setCorsHeaders(headers) ==
  HeadersSet(
    HeadersSet(
      HeadersSet(headers, <<"A", "c", "c", "e", "s", "s", "-", "C", "o", "n", "t", "r", "o", "l", "-", "A", "l", "l", "o", "w", "-", "O", "r", "i", "g", "i", "n">>, <<"*">>),
      <<"A", "c", "c", "e", "s", "s", "-", "C", "o", "n", "t", "r", "o", "l", "-", "A", "l", "l", "o", "w", "-", "M", "e", "t", "h", "o", "d", "s">>, <<"G", "E", "T", ",", " ", "P", "O", "S", "T", ",", " ", "P", "U", "T", ",", " ", "D", "E", "L", "E", "T", "E">>),
    <<"A", "c", "c", "e", "s", "s", "-", "C", "o", "n", "t", "r", "o", "l", "-", "A", "l", "l", "o", "w", "-", "H", "e", "a", "d", "e", "r", "s">>, <<"*">>)

\* getRootHtml(), index.js:136: the landing page (its first line stands for it)
getRootHtml == <<"<", "!", "D", "O", "C", "T", "Y", "P", "E", " ", "h", "t", "m", "l", ">">>

----------------------------------------------------------------------------
(* The fetch handler, index.js:2-71, as a state machine. One inbound       *)
(* request is handled; the handler suspends once, at await fetch(...).     *)

VARIABLES
  request,       \* the inbound request: the fields of new URL(request.url),
                 \* method, headers, body
  upstream,      \* the resource the upstream server holds at the target
  pc,            \* "start", "fetching" (suspended at line 36), "resumed", "done"
  actualUrlStr,  \* the local of that name, once computed
  sent,          \* the outbound requests handed to fetch, in order
  response,      \* the local of that name: None, or Some(upstream response)
  result,        \* what the handler returned: None, or Some(Response)
  branch,        \* the return statement or branch taken: "none", "root",
                 \* "redirect", "html", "passthrough"
  caught         \* how many times the catch block of line 62 ran

vars == <<request, upstream, pc, actualUrlStr, sent, response, result, branch, caught>>

RedirectStatuses == {301, 302, 303, 307, 308}

\* lines 16-22: the target URL string of a non-root request
resolveTarget(req) ==
  LET decoded == decodeURIComponent(replaceFirst(req.pathname, <<"/">>, <<>>))
  IN IF ~decoded.ok THEN Thrown(<<"U", "R", "I", " ", "m", "a", "l", "f", "o", "r", "m", "e", "d">>)
     ELSE Returned(ensureProtocol(decoded.value, req.protocol) \o req.search)

\* A variant: the default of the Request constructor
redirectFollow == "follow"

\* line 32: redirect: 'manual'
redirectMode == "manual"

\* lines 24-33: the outbound request
buildRequest(req, target) ==
  NewRequest(target, filterHeaders(req.headers), req.method, req.body, redirectMode)

\* line 40
isRedirect(resp) == resp.status \in RedirectStatuses
\* line 44: response.headers.get('Content-Type')?.includes('text/html')
isHtml(resp) ==
  LET contentType == HeadersGet(resp.headers, <<"C", "o", "n", "t", "e", "n", "t", "-", "T", "y", "p", "e">>)
  IN contentType # None /\ includes(contentType[1], <<"t", "e", "x", "t", "/", "h", "t", "m", "l">>)

\* lines 48-61: the modified response, with the injected headers
modifyResponse(resp, body, lenient) ==
  LET modifiedResponse ==
        NewResponse(body, resp.status, resp.statusText, HeadersCopy(resp.headers), lenient)
  IN IF ~modifiedResponse.ok THEN modifiedResponse
     ELSE Returned([modifiedResponse.value EXCEPT
                      !.headers = setCorsHeaders(setNoCacheHeaders(@))])

\* lines 37-61: what the handler does with the upstream response
respond(req, resp, target, lenient) ==
  IF isRedirect(resp)
    THEN [branch |-> "redirect", outcome |-> handleRedirect(resp, resp.body)]
  ELSE IF isHtml(resp)
    THEN LET text == handleHtmlContent(resp, req.protocol, req.host, target)
         IN [branch |-> "html",
             outcome |-> IF ~text.ok THEN text
                         ELSE modifyResponse(resp, Some(text.value), lenient)]
  ELSE [branch |-> "passthrough", outcome |-> modifyResponse(resp, resp.body, lenient)]

\* lines 62-70: the catch block
Catch(message) ==
  /\ result' = Some(jsonResponse(message, 500))
  /\ caught' = caught + 1
  /\ pc' = "done"

\* lines 3-36: from entry to the await of fetch(modifiedRequest)
FetchEnter ==
  /\ pc = "start"
  /\ IF request.pathname = <<"/">>
       THEN /\ result' = Some([status |-> 200, statusText |-> <<>>,
                               headers |-> HeadersNew(<< <<<<"C", "o", "n", "t", "e", "n", "t", "-", "T", "y", "p", "e">>, <<"t", "e", "x", "t", "/", "h", "t", "m", "l", ";", " ", "c", "h", "a", "r", "s", "e", "t", "=", "u", "t", "f", "-", "8">>>> >>),
                               body |-> Some(getRootHtml)])
            /\ branch' = "root"
            /\ pc' = "done"
            /\ UNCHANGED <<actualUrlStr, sent, caught>>
       ELSE LET target == resolveTarget(request)
                modifiedRequest == buildRequest(request, target.value)
            IN IF ~target.ok
                 THEN Catch(target.message) /\ UNCHANGED <<actualUrlStr, sent, branch>>
               ELSE IF ~modifiedRequest.ok
                 THEN /\ Catch(modifiedRequest.message)
                      /\ actualUrlStr' = Some(target.value)
                      /\ UNCHANGED <<sent, branch>>
               ELSE /\ actualUrlStr' = Some(target.value)
                    /\ sent' = Append(sent, modifiedRequest.value)
                    /\ pc' = "fetching"
                    /\ UNCHANGED <<result, branch, caught>>
  /\ UNCHANGED <<request, upstream, response>>

\* fetch(modifiedRequest) resolves. With redirect: 'follow' the transport would
\* itself request a redirect's location (at most 20 times); with 'manual' the
\* redirect response is handed to the handler.
UpstreamResponds ==
  /\ pc = "fetching"
  /\ LET last == sent[Len(sent)]
         location == HeadersGet(upstream.headers, <<"l", "o", "c", "a", "t", "i", "o", "n">>)
         next == ParseURL(IF location = None THEN <<"n", "u", "l", "l">> ELSE location[1])
     IN IF last.redirect = "follow" /\ upstream.status \in RedirectStatuses
             /\ next.ok /\ Len(sent) <= 20
          THEN /\ sent' = Append(sent, [last EXCEPT !.url = Href(next)])
               /\ UNCHANGED <<pc, response>>
          ELSE /\ response' = Some(upstream)
               /\ pc' = "resumed"
               /\ UNCHANGED sent
  /\ UNCHANGED <<request, upstream, actualUrlStr, result, branch, caught>>

\* fetch(modifiedRequest) rejects (DNS, TLS, connection, timeout): the catch
\* block runs, nothing is retried
UpstreamFails ==
  /\ pc = "fetching"
  /\ Catch(<<"N", "e", "t", "w", "o", "r", "k", " ", "c", "o", "n", "n", "e", "c", "t", "i", "o", "n", " ", "l", "o", "s", "t">>)
  /\ UNCHANGED <<request, upstream, actualUrlStr, sent, response, branch>>

\* lines 37-61 (and 62-70 when one of them throws)
FetchResume ==
  /\ pc = "resumed"
  /\ \E lenient \in BOOLEAN :
       \E r \in {respond(request, response[1], actualUrlStr[1], lenient)} :
          /\ branch' = r.branch
          /\ IF r.outcome.ok
               THEN result' = Some(r.outcome.value) /\ pc' = "done" /\ UNCHANGED caught
               ELSE Catch(r.outcome.message)
  /\ UNCHANGED <<request, upstream, actualUrlStr, sent, response>>

Next == FetchEnter \/ UpstreamResponds \/ UpstreamFails \/ FetchResume

----------------------------------------------------------------------------
(* Inputs.                                                                 *)

\* all sequences over S of length at most n
SeqsUpTo(S, n) == UNION {[1..k -> S] : k \in 0..n}

StatusText(status) ==
  CASE status = 200 -> <<"O", "K">>
    [] status = 302 -> <<"F", "o", "u", "n", "d">>
    [] status = 304 -> <<"N", "o", "t", " ", "M", "o", "d", "i", "f", "i", "e", "d">>
    [] status = 404 -> <<"N", "o", "t", " ", "F", "o", "u", "n", "d">>
    [] OTHER -> <<"R", "e", "d", "i", "r", "e", "c", "t">>

Statuses == {200, 404, 304} \cup RedirectStatuses
ContentTypes ==
  {None, Some(<<"t", "e", "x", "t", "/", "h", "t", "m", "l", ";", " ", "c", "h", "a", "r", "s", "e", "t", "=", "u", "t", "f", "-", "8">>), Some(<<"T", "e", "x", "t", "/", "H", "T", "M", "L", ";", " ", "c", "h", "a", "r", "s", "e", "t", "=", "u", "t", "f", "-", "8">>),
   Some(<<"a", "p", "p", "l", "i", "c", "a", "t", "i", "o", "n", "/", "j", "s", "o", "n">>)}
Locations ==
  {None, Some(<<"h", "t", "t", "p", "s", ":", "/", "/", "e", "x", "a", "m", "p", "l", "e", ".", "c", "o", "m", "/", "a", " ", "b", "?", "x", "=", "1">>), Some(<<"/", "n", "e", "x", "t">>), Some(<<"m", "a", "i", "l", "t", "o", ":", "a", "@", "b", ".", "c">>)}
ExtraHeaders ==
  {<<>>,
   << <<<<"S", "e", "t", "-", "C", "o", "o", "k", "i", "e">>, <<"a", "=", "1">>>>, <<<<"C", "a", "c", "h", "e", "-", "C", "o", "n", "t", "r", "o", "l">>, <<"m", "a", "x", "-", "a", "g", "e", "=", "6", "0">>>>,
      <<<<"V", "a", "r", "y">>, <<"A", "c", "c", "e", "p", "t">>>>, <<<<"S", "e", "t", "-", "C", "o", "o", "k", "i", "e">>, <<"b", "=", "2">>>>,
      <<<<"A", "c", "c", "e", "s", "s", "-", "C", "o", "n", "t", "r", "o", "l", "-", "A", "l", "l", "o", "w", "-", "O", "r", "i", "g", "i", "n">>, <<"h", "t", "t", "p", "s", ":", "/", "/", "x", ".", "y">>>>, <<<<"v", "a", "r", "y">>, <<"O", "r", "i", "g", "i", "n">>>>,
      <<<<"a", "c", "c", "e", "s", "s", "-", "c", "o", "n", "t", "r", "o", "l", "-", "a", "l", "l", "o", "w", "-", "m", "e", "t", "h", "o", "d", "s">>, <<"G", "E", "T">>>>,
      <<<<"A", "c", "c", "e", "s", "s", "-", "C", "o", "n", "t", "r", "o", "l", "-", "A", "l", "l", "o", "w", "-", "H", "e", "a", "d", "e", "r", "s">>, <<"X", "-", "A">>>> >>}
Bodies == {None, Some(<<"<", "a", " ", "h", "r", "e", "f", "=", "\"", "/", "x", "\"", ">">>)}

Opt(name, v) == IF v = None THEN <<>> ELSE << <<name, v[1]>> >>

Resource(status, contentType, location, extra, body, readable) ==
  [status |-> status, statusText |-> StatusText(status),
   headers |-> Opt(<<"C", "o", "n", "t", "e", "n", "t", "-", "T", "y", "p", "e">>, contentType) \o extra \o Opt(<<"L", "o", "c", "a", "t", "i", "o", "n">>, location),
   body |-> IF status \in NullBodyStatus THEN None ELSE body,
   readable |-> readable]

\* what the upstream may hold: any answer that is no redirect, and redirects
\* with and without a Location
Resources ==
  {Resource(s, c, None, x, b, r) :
     s \in Statuses \ RedirectStatuses, c \in ContentTypes, x \in ExtraHeaders,
     b \in Bodies, r \in BOOLEAN}
  \cup
  {Resource(s, c, l, x, Some(<<"<", "a", " ", "h", "r", "e", "f", "=", "\"", "/", "x", "\"", ">">>), TRUE) :
     s \in RedirectStatuses, c \in {None, Some(<<"t", "e", "x", "t", "/", "h", "t", "m", "l", ";", " ", "c", "h", "a", "r", "s", "e", "t", "=", "u", "t", "f", "-", "8">>)},
     l \in Locations, x \in ExtraHeaders}

\* a GET carries no body
Methods == {<<"GET", None>>, <<"POST", Some(<<"d", "a", "t", "a">>)>>}

Inbound(protocol, host, pathname, search, m, headers) ==
  [protocol |-> protocol, host |-> host, pathname |-> pathname, search |-> search,
   method |-> m[1], body |-> m[2], headers |-> headers]

DefaultHeaders == << <<<<"A", "c", "c", "e", "p", "t">>, <<"*", "/", "*">>>>, <<<<"C", "F", "-", "R", "a", "y">>, <<"1">>>> >>

Pathnames ==
  {<<"/">>, <<"/", "e", "x", "a", "m", "p", "l", "e", ".", "c", "o", "m", "/", "p", "a", "g", "e">>, <<"/", "h", "t", "t", "p", "s", "%", "3", "A", "%", "2", "F", "%", "2", "F", "e", "x", "a", "m", "p", "l", "e", ".", "c", "o", "m", "%", "2", "F", "a">>, <<"/", "%", "z", "z">>, <<"/", "a", "%", "2", "0", "b", "/", "c">>}

Requests ==
  {Inbound(<<"h", "t", "t", "p", "s", ":">>, <<"r", "e", "l", "a", "y", ".", "i", "o">>, p, q, m, DefaultHeaders) :
     p \in Pathnames, q \in {<<>>, <<"?", "x", "=", "1">>}, m \in Methods}

Fresh ==
  /\ pc = "start"
  /\ actualUrlStr = None
  /\ sent = <<>>
  /\ response = None
  /\ result = None
  /\ branch = "none"
  /\ caught = 0

Init == request \in Requests /\ upstream \in Resources /\ Fresh

Spec == Init /\ [][Next]_vars

\* an upstream page: 200, text/html, a body that reads
Page(text) ==
  Resource(200, Some(<<"t", "e", "x", "t", "/", "h", "t", "m", "l", ";", " ", "c", "h", "a", "r", "s", "e", "t", "=", "u", "t", "f", "-", "8">>), None, <<>>, Some(text), TRUE)

\* URL resolution: the paths built of at most MaxPathTokens of these pieces,
\* under either inbound scheme, with and without a query
MaxPathTokens == 3
PathTokens ==
  {<<"h", "t", "t", "p", ":", "/", "/">>, <<"h", "t", "t", "p", "s", ":", "/", "/">>, <<"h", "t", "t", "p", "%", "3", "A", "%", "2", "F", "%", "2", "F">>, <<"e", "x", "a", "m", "p", "l", "e", ".", "c", "o", "m">>, <<"/", "a">>, <<"%", "2", "0">>, <<"%">>, <<"H", "T", "T", "P", ":", "/", "/">>}
InitResolve ==
  /\ request \in
       {Inbound(pr, <<"r", "e", "l", "a", "y", ".", "i", "o">>, <<"/">> \o Concat(t), q, <<"GET", None>>, DefaultHeaders) :
          pr \in {<<"h", "t", "t", "p", ":">>, <<"h", "t", "t", "p", "s", ":">>}, t \in SeqsUpTo(PathTokens, MaxPathTokens),
          q \in {<<>>, <<"?", "x", "=", "1">>}}
  /\ upstream = Page(<<"<", "a", " ", "h", "r", "e", "f", "=", "\"", "/", "x", "\"", ">">>)
  /\ Fresh
SpecResolve == InitResolve /\ [][Next]_vars

\* Header filtering: the inbound header lists of at most MaxHeaders of these
MaxHeaders == 3
HeaderPool ==
  {<<<<"C", "F", "-", "R", "a", "y">>, <<"1">>>>, <<<<"c", "f", "-", "c", "o", "n", "n", "e", "c", "t", "i", "n", "g", "-", "i", "p">>, <<"2">>>>, <<<<"A", "c", "c", "e", "p", "t">>, <<"1">>>>,
   <<<<"a", "c", "c", "e", "p", "t">>, <<"2">>>>, <<<<"X", "-", "c", "f", "-", "i", "d">>, <<"1">>>>, <<<<"C", "o", "o", "k", "i", "e">>, <<"1">>>>, <<<<"C", "f", "-", "V", "i", "s", "i", "t", "o", "r">>, <<"2">>>>}
InitHeaders ==
  /\ request \in
       {Inbound(<<"h", "t", "t", "p", "s", ":">>, <<"r", "e", "l", "a", "y", ".", "i", "o">>, <<"/", "e", "x", "a", "m", "p", "l", "e", ".", "c", "o", "m", "/", "p", "a", "g", "e">>, <<>>, <<"GET", None>>, h) :
          h \in SeqsUpTo(HeaderPool, MaxHeaders)}
  /\ upstream = Page(<<"<", "a", " ", "h", "r", "e", "f", "=", "\"", "/", "x", "\"", ">">>)
  /\ Fresh
SpecHeaders == InitHeaders /\ [][Next]_vars

\* HTML rewriting: the pages built of at most MaxHtmlTokens of these pieces,
\* asked for through two relays and targets
MaxHtmlTokens == 4
HtmlTokens == {<<"h", "r", "e", "f", "=", "\"">>, <<"s", "r", "c", "=", "'">>, <<"a", "c", "t", "i", "o", "n", "=", "\"">>, <<"S", "R", "C", "=", "\"">>, <<"\"">>, <<"/">>, <<"x">>}
InitHtml ==
  /\ request \in
       {Inbound(<<"h", "t", "t", "p", "s", ":">>, <<"r", "e", "l", "a", "y", ".", "i", "o">>, <<"/", "e", "x", "a", "m", "p", "l", "e", ".", "c", "o", "m", "/", "p", "a", "g", "e">>, <<>>, <<"GET", None>>,
                DefaultHeaders),
        Inbound(<<"h", "t", "t", "p", ":">>, <<"l", "o", "c", "a", "l", "h", "o", "s", "t", ":", "8", "7", "8", "7">>, <<"/", "h", "t", "t", "p", "%", "3", "A", "%", "2", "F", "%", "2", "F", "E", "x", "a", "m", "p", "l", "e", ".", "c", "o", "m", ":", "8", "0", "8", "0", "%", "2", "F", "p", "a", "g", "e">>, <<"?", "x", "=", "1">>,
                <<"GET", None>>, DefaultHeaders)}
  /\ upstream \in {Page(Concat(t)) : t \in SeqsUpTo(HtmlTokens, MaxHtmlTokens)}
  /\ Fresh
SpecHtml == InitHtml /\ [][Next]_vars

----------------------------------------------------------------------------
(* Properties.                                                             *)

Done == pc = "done"
\* the handler returned a response for a forwarded request without throwing
Forwarded == Done /\ caught = 0 /\ branch \in {"redirect", "html", "passthrough"}

PolicyNames ==
  {<<"c", "a", "c", "h", "e", "-", "c", "o", "n", "t", "r", "o", "l">>, <<"a", "c", "c", "e", "s", "s", "-", "c", "o", "n", "t", "r", "o", "l", "-", "a", "l", "l", "o", "w", "-", "o", "r", "i", "g", "i", "n">>, <<"a", "c", "c", "e", "s", "s", "-", "c", "o", "n", "t", "r", "o", "l", "-", "a", "l", "l", "o", "w", "-", "m", "e", "t", "h", "o", "d", "s">>,
   <<"a", "c", "c", "e", "s", "s", "-", "c", "o", "n", "t", "r", "o", "l", "-", "a", "l", "l", "o", "w", "-", "h", "e", "a", "d", "e", "r", "s">>}
NamesOf(h) == {toLowerCase(h[i][1]) : i \in 1..Len(h)}

HasPolicy(h) ==
  /\ HeadersGet(h, <<"C", "a", "c", "h", "e", "-", "C", "o", "n", "t", "r", "o", "l">>) = Some(<<"n", "o", "-", "s", "t", "o", "r", "e">>)
  /\ HeadersGet(h, <<"A", "c", "c", "e", "s", "s", "-", "C", "o", "n", "t", "r", "o", "l", "-", "A", "l", "l", "o", "w", "-", "O", "r", "i", "g", "i", "n">>) = Some(<<"*">>)
  /\ HeadersGet(h, <<"A", "c", "c", "e", "s", "s", "-", "C", "o", "n", "t", "r", "o", "l", "-", "A", "l", "l", "o", "w", "-", "M", "e", "t", "h", "o", "d", "s">>) = Some(<<"G", "E", "T", ",", " ", "P", "O", "S", "T", ",", " ", "P", "U", "T", ",", " ", "D", "E", "L", "E", "T", "E">>)
  /\ HeadersGet(h, <<"A", "c", "c", "e", "s", "s", "-", "C", "o", "n", "t", "r", "o", "l", "-", "A", "l", "l", "o", "w", "-", "H", "e", "a", "d", "e", "r", "s">>) = Some(<<"*">>)

\* the headers of h named otherwise than in `except` are those of g: the same
\* names, the same value for each, the same Set-Cookie values in order
SameHeadersExcept(h, g, except) ==
  /\ NamesOf(h) \ except = NamesOf(g) \ except
  /\ \A n \in NamesOf(g) \ except : ValuesOf(h, n) # <<>> /\ HeadersGet(h, n) = HeadersGet(g, n)
  /\ <<"s", "e", "t", "-", "c", "o", "o", "k", "i", "e">> \notin except => ValuesOf(h, <<"s", "e", "t", "-", "c", "o", "o", "k", "i", "e">>) = ValuesOf(g, <<"s", "e", "t", "-", "c", "o", "o", "k", "i", "e">>)

\* C1: every response returned for a forwarded request without an error
\* (redirect, HTML or pass-through) carries Cache-Control: no-store and the
\* three Access-Control-Allow-* headers with their fixed values.
C1_PolicyOnEverySuccess == Forwarded => HasPolicy(result[1].headers)

\* the absolute URL a Location stands for: itself when absolute, else resolved
\* against the URL of the upstream response (a path-absolute reference)
AbsoluteLocation(location, base) ==
  IF ParseURL(location).ok THEN Href(ParseURL(location))
  ELSE Origin(ParseURL(base)) \o location

\* C2: a redirect status with a Location header, absolute or relative, is
\* answered by a redirect (no error) whose Location is "/" followed by the
\* percent-encoded absolute location, and that Location, taken as an inbound
\* path, resolves to the same absolute URL.
C2_RedirectRoundTrip ==
  (Done /\ response # None /\ response[1].status \in RedirectStatuses
     /\ HeadersGet(response[1].headers, <<"L", "o", "c", "a", "t", "i", "o", "n">>) # None)
  => LET abs == AbsoluteLocation(HeadersGet(response[1].headers, <<"L", "o", "c", "a", "t", "i", "o", "n">>)[1], sent[1].url)
         rewritten == <<"/">> \o encodeURIComponent(abs)
     IN /\ caught = 0
        /\ result[1].status = response[1].status
        /\ HeadersGet(result[1].headers, <<"L", "o", "c", "a", "t", "i", "o", "n">>) = Some(rewritten)
        /\ resolveTarget([request EXCEPT !.pathname = rewritten, !.search = <<>>])
             = Returned(abs)

\* C3: on the redirect branch status, status text and body are the upstream's
\* and the headers are the upstream's with only Location replaced.
C3_RedirectKeepsHeaders ==
  (Forwarded /\ branch = "redirect")
  => /\ result[1].status = response[1].status
     /\ result[1].statusText = response[1].statusText
     /\ result[1].body = response[1].body
     /\ SameHeadersExcept(result[1].headers, response[1].headers, {<<"l", "o", "c", "a", "t", "i", "o", "n">>})

\* The failures of each stage, read off the inputs.
DecodeFails == request.pathname # <<"/">> /\ ~decodeURIComponent(Tail(request.pathname)).ok
TargetInvalid ==
  /\ request.pathname # <<"/">>
  /\ decodeURIComponent(Tail(request.pathname)).ok
  /\ actualUrlStr # None /\ ~ParseURL(actualUrlStr[1]).ok
FetchRejected == Done /\ sent # <<>> /\ response = None
LocationUnusable ==
  /\ Done /\ response # None /\ response[1].status \in RedirectStatuses
  /\ \/ HeadersGet(response[1].headers, <<"L", "o", "c", "a", "t", "i", "o", "n">>) = None
     \/ ~ParseURL(HeadersGet(response[1].headers, <<"L", "o", "c", "a", "t", "i", "o", "n">>)[1]).ok
BodyUnreadable ==
  /\ Done /\ response # None /\ branch = "html" /\ ~response[1].readable

ErrorEnvelope(r, message) ==
  /\ r.status = 500
  /\ HeadersEntries(r.headers) = << <<<<"c", "o", "n", "t", "e", "n", "t", "-", "t", "y", "p", "e">>, <<"a", "p", "p", "l", "i", "c", "a", "t", "i", "o", "n", "/", "j", "s", "o", "n", ";", " ", "c", "h", "a", "r", "s", "e", "t", "=", "u", "t", "f", "-", "8">>>> >>
  /\ r.body = Some(<<"{", "\"", "e", "r", "r", "o", "r", "\"", ":", "\"">> \o message \o <<"\"", "}">>)

ErrorMessages ==
  {<<"U", "R", "I", " ", "m", "a", "l", "f", "o", "r", "m", "e", "d">>, <<"I", "n", "v", "a", "l", "i", "d", " ", "U", "R", "L">>, <<"N", "e", "t", "w", "o", "r", "k", " ", "c", "o", "n", "n", "e", "c", "t", "i", "o", "n", " ", "l", "o", "s", "t">>,
   <<"R", "e", "s", "p", "o", "n", "s", "e", " ", "w", "i", "t", "h", " ", "n", "u", "l", "l", " ", "b", "o", "d", "y", " ", "s", "t", "a", "t", "u", "s", " ", "c", "a", "n", "n", "o", "t", " ", "h", "a", "v", "e", " ", "b", "o", "d", "y">>}

\* C4: an error at any stage, also after the upstream answered, is caught once
\* and answered by status 500, Content-Type application/json; charset=utf-8 and
\* the body {"error": <message>}; no upstream response is returned then.
C4_ErrorEnvelope ==
  /\ caught <= 1
  /\ Done /\ DecodeFails => caught = 1 /\ ErrorEnvelope(result[1], <<"U", "R", "I", " ", "m", "a", "l", "f", "o", "r", "m", "e", "d">>)
  /\ Done /\ TargetInvalid => caught = 1 /\ ErrorEnvelope(result[1], <<"I", "n", "v", "a", "l", "i", "d", " ", "U", "R", "L">>)
  /\ FetchRejected => caught = 1 /\ ErrorEnvelope(result[1], <<"N", "e", "t", "w", "o", "r", "k", " ", "c", "o", "n", "n", "e", "c", "t", "i", "o", "n", " ", "l", "o", "s", "t">>)
  /\ LocationUnusable => caught = 1 /\ ErrorEnvelope(result[1], <<"I", "n", "v", "a", "l", "i", "d", " ", "U", "R", "L">>)
  /\ BodyUnreadable => caught = 1 /\ ErrorEnvelope(result[1], <<"N", "e", "t", "w", "o", "r", "k", " ", "c", "o", "n", "n", "e", "c", "t", "i", "o", "n", " ", "l", "o", "s", "t">>)
  /\ caught = 1 => Done /\ \E m \in ErrorMessages : ErrorEnvelope(result[1], m)
  /\ Done /\ caught = 0 /\ branch # "root" => response # None /\ result[1].status = response[1].status

\* an error after the upstream answered: an HTML body that cannot be read
C4_Witness == caught = 1 /\ BodyUnreadable /\ result[1].status = 500

\* the branch the classification rule names, Content-Type matched without
\* regard to case
ExpectedBranch(resp) ==
  IF resp.status \in RedirectStatuses THEN "redirect"
  ELSE IF HeadersGet(resp.headers, <<"C", "o", "n", "t", "e", "n", "t", "-", "T", "y", "p", "e">>) # None
          /\ includes(toLowerCase(HeadersGet(resp.headers, <<"C", "o", "n", "t", "e", "n", "t", "-", "T", "y", "p", "e">>)[1]), <<"t", "e", "x", "t", "/", "h", "t", "m", "l">>)
    THEN "html"
  ELSE "passthrough"

\* C7: an upstream response is handled by the redirect branch when its status
\* is 301, 302, 303, 307 or 308, else by the HTML branch when its Content-Type
\* contains text/html in any letter case, else by the pass-through branch.
C7_Classification ==
  (Done /\ response # None) => branch = ExpectedBranch(response[1])

\* the request is one the relay forwards: not the root path, and a target that
\* decodes and parses
ValidForward ==
  /\ request.pathname # <<"/">>
  /\ decodeURIComponent(Tail(request.pathname)).ok
  /\ ParseURL(ensureProtocol(decodeURIComponent(Tail(request.pathname)).value,
                             request.protocol) \o request.search).ok

\* C9: one inbound request makes at most one outbound request: exactly one,
\* with the inbound method and body and redirect following disabled, when the
\* path is not the root and the target is a valid URL, and none otherwise;
\* the root path is answered by the text/html landing page.
C9_AtMostOneOutbound ==
  /\ Len(sent) <= 1
  /\ pc # "start" => (Len(sent) = 1 <=> ValidForward)
  /\ \A i \in 1..Len(sent) :
       /\ sent[i].method = request.method
       /\ sent[i].body = request.body
       /\ sent[i].redirect = "manual"
  /\ pc # "start" /\ request.pathname = <<"/">>
       => /\ Done /\ branch = "root" /\ caught = 0
          /\ HeadersGet(result[1].headers, <<"C", "o", "n", "t", "e", "n", "t", "-", "T", "y", "p", "e">>) = Some(<<"t", "e", "x", "t", "/", "h", "t", "m", "l", ";", " ", "c", "h", "a", "r", "s", "e", "t", "=", "u", "t", "f", "-", "8">>)

\* a redirect was answered after a single outbound request
C9_Witness ==
  Done /\ Len(sent) = 1 /\ branch = "redirect" /\ caught = 0 /\ request.method = "POST"

\* C10: on the pass-through branch status, status text and body are the
\* upstream's, and so is every header but Cache-Control and the three
\* Access-Control-Allow-* headers.
C10_PassThroughFrame ==
  (Forwarded /\ branch = "passthrough")
  => /\ result[1].status = response[1].status
     /\ result[1].statusText = response[1].statusText
     /\ result[1].body = response[1].body
     /\ SameHeadersExcept(result[1].headers, response[1].headers, PolicyNames)

\* a pass-through answer whose upstream sent two Set-Cookie headers and its own
\* Cache-Control
C10_Witness ==
  /\ Forwarded /\ branch = "passthrough"
  /\ Len(ValuesOf(response[1].headers, <<"s", "e", "t", "-", "c", "o", "o", "k", "i", "e">>)) = 2
  /\ HeadersGet(response[1].headers, <<"C", "a", "c", "h", "e", "-", "C", "o", "n", "t", "r", "o", "l">>) = Some(<<"m", "a", "x", "-", "a", "g", "e", "=", "6", "0">>)
  /\ response[1].body # None

\* p is a prefix of s, character by character
HasPrefix(s, p) == Len(p) <= Len(s) /\ \A i \in 1..Len(p) : s[i] = p[i]

FilteredFrom(out, inbound) ==
  /\ \A n \in NamesOf(inbound) \cup NamesOf(out) :
       IF HasPrefix(n, <<"c", "f", "-">>) THEN HeadersGet(out, n) = None
       ELSE HeadersGet(out, n) # None /\ HeadersGet(out, n) = HeadersGet(inbound, n)
  /\ \A i \in 1..Len(out) :
       \E k \in 1..Len(HeadersEntries(inbound)) : HeadersEntries(inbound)[k] = out[i]
  /\ \A i, j \in 1..Len(out) : i < j => NameLess(out[i][1], out[j][1])

C6_TargetURL ==
  (pc # "start" /\ request.pathname # <<"/">> /\ decodeURIComponent(Tail(request.pathname)).ok)
  => LET D == decodeURIComponent(Tail(request.pathname)).value
         R == IF HasPrefix(D, <<"h", "t", "t", "p", ":", "/", "/">>) \/ HasPrefix(D, <<"h", "t", "t", "p", "s", ":", "/", "/">>) THEN D
              ELSE request.protocol \o <<"/", "/">> \o D
     IN /\ actualUrlStr = Some(R \o request.search)
        /\ HasPrefix(actualUrlStr[1], <<"h", "t", "t", "p", ":", "/", "/">>) \/ HasPrefix(actualUrlStr[1], <<"h", "t", "t", "p", "s", ":", "/", "/">>)
        /\ \A i \in 1..Len(sent) :
             /\ HasPrefix(sent[i].url, <<"h", "t", "t", "p", ":", "/", "/">>) \/ HasPrefix(sent[i].url, <<"h", "t", "t", "p", "s", ":", "/", "/">>)
             /\ ParseURL(actualUrlStr[1]).ok /\ sent[i].url = Href(ParseURL(actualUrlStr[1]))
        /\ (request.pathname = <<"/", "e", "x", "a", "m", "p", "l", "e", ".", "c", "o", "m", "/", "a">> /\ request.search = <<>>)
             => actualUrlStr = Some(request.protocol \o <<"/", "/", "e", "x", "a", "m", "p", "l", "e", ".", "c", "o", "m", "/", "a">>)
        /\ (request.pathname = <<"/", "h", "t", "t", "p", "%", "3", "A", "%", "2", "F", "%", "2", "F", "e", "x", "a", "m", "p", "l", "e", ".", "c", "o", "m">> /\ request.search = <<>>)
             => actualUrlStr = Some(<<"h", "t", "t", "p", ":", "/", "/", "e", "x", "a", "m", "p", "l", "e", ".", "c", "o", "m">>)

\* an explicit http:// in the path, under an inbound https: request with a
\* query, was requested
C6_Witness ==
  /\ request.protocol = <<"h", "t", "t", "p", "s", ":">>
  /\ actualUrlStr = Some(<<"h", "t", "t", "p", ":", "/", "/", "e", "x", "a", "m", "p", "l", "e", ".", "c", "o", "m", "/", "a", "?", "x", "=", "1">>)
  /\ Len(sent) = 1 /\ sent[1].url = <<"h", "t", "t", "p", ":", "/", "/", "e", "x", "a", "m", "p", "l", "e", ".", "c", "o", "m", "/", "a", "?", "x", "=", "1">>

\* index i of text holds a slash the rewrite rule names: after href=, src= or
\* action= and a quote, and not followed by a second slash
SlashToRewrite(text, i) ==
  /\ text[i] = "/"
  /\ i = Len(text) \/ text[i + 1] # "/"
  /\ i >= 2 /\ text[i - 1] \in {"\"", "'"}
  /\ \E a \in {<<"h", "r", "e", "f", "=">>, <<"s", "r", "c", "=">>, <<"a", "c", "t", "i", "o", "n", "=">>} :
       i - 1 - Len(a) >= 1 /\ SubSeq(text, i - 1 - Len(a), i - 2) = a

Rewritten(text, prefix) ==
  Concat([i \in 1..Len(text) |-> IF SlashToRewrite(text, i) THEN prefix ELSE <<text[i]>>])

====
